---- MODULE Spec2Model ----
(***************************************************************************)
(* RRT* planner of src/src/rrt_star.py (class RRTStar) as a state machine. *)
(*                                                                         *)
(* World coordinates are integers (a lattice of the continuous plane), a   *)
(* point is <<x, y>>.  Distances are compared through their squares; path  *)
(* costs are fixed-point numbers with CostScale units per world unit.      *)
(* Grid costs are percentages (0..100 for 0.0..1.0).                       *)
(***************************************************************************)
EXTENDS Integers, Sequences, FiniteSets, TLC

(* ----------------------------- bounds --------------------------------- *)
\* largest iteration budget (max_iter) a planner is constructed with
MaxIter == 3
\* iteration budget of a planner whose find_path is called more than once
ReuseIter == 1
\* largest tree on which find_path is called once more
MaxTree == 2

(* ------------------------ planner configuration ------------------------ *)
StepSize == 3
NeighborRadius == 3
GridScale == 1
TraversabilityThreshold == 75
CostScale == 100

None == -1
NoPoint == <<-1, -1>>

(* ------------------------------ maps ----------------------------------- *)
\* grid rows are listed from y = 0 upwards; grid[r][c] of the source is
\* sc.grid[r + 1][c + 1].  An obstacle is the closed axis-parallel
\* rectangle <<x0, y0, x1, y1>>.
OpenMap ==
  [grid |-> << <<0, 0, 0, 0>>, <<0, 0, 0, 0>>, <<0, 0, 0, 0>>, <<0, 0, 0, 0>> >>,
   obstacles |-> {}, start |-> <<0, 0>>, goal |-> <<3, 3>>]

WallMap ==
  [grid |-> << <<0, 0, 0, 0>>, <<0, 0, 0, 0>>, <<0, 0, 0, 0>>, <<0, 0, 0, 0>> >>,
   obstacles |-> {<<1, 1, 2, 1>>}, start |-> <<1, 0>>, goal |-> <<1, 3>>]

CorridorMap ==
  [grid |-> << <<100, 100, 100, 100>>, <<100, 0, 100, 100>>,
               <<100, 0, 100, 100>>, <<100, 0, 0, 0>> >>,
   obstacles |-> {}, start |-> <<1, 1>>, goal |-> <<3, 3>>]

BlockedMap ==
  [grid |-> << <<100, 100, 100, 100>>, <<100, 100, 100, 100>>,
               <<100, 100, 100, 100>>, <<100, 100, 100, 100>> >>,
   obstacles |-> {}, start |-> <<0, 0>>, goal |-> <<3, 0>>]

SoftMap ==
  [grid |-> << <<0, 100, 0, 0>>, <<0, 0, 100, 0>>, <<0, 0, 50, 0>>, <<0, 50, 0, 0>> >>,
   obstacles |-> {}, start |-> <<0, 0>>, goal |-> <<3, 2>>]

WideMap ==
  [grid |-> << <<0, 0, 0, 0, 0>>, <<0, 0, 0, 100, 0>> >>,
   obstacles |-> {}, start |-> <<0, 0>>, goal |-> <<4, 1>>]

GoalInWallMap ==
  [grid |-> << <<0, 0, 0, 0>>, <<0, 0, 0, 0>>, <<0, 0, 100, 100>>, <<0, 0, 100, 100>> >>,
   obstacles |-> {<<2, 2, 3, 3>>}, start |-> <<0, 0>>, goal |-> <<2, 2>>]

FenceMap ==
  [grid |-> << <<0, 0, 0>>, <<0, 0, 0>>, <<0, 0, 0>> >>,
   obstacles |-> {<<1, 1, 2, 1>>}, start |-> <<1, 0>>, goal |-> <<1, 1>>]

WideEdgeMap ==
  [grid |-> << <<0, 0, 0, 0, 0>>, <<0, 0, 0, 100, 0>> >>,
   obstacles |-> {}, start |-> <<0, 0>>, goal |-> <<4, 0>>]

PointMap ==
  [grid |-> << <<0, 0>>, <<0, 0>> >>,
   obstacles |-> {}, start |-> <<1, 1>>, goal |-> <<1, 1>>]

Maps == {OpenMap, WallMap, CorridorMap, BlockedMap, SoftMap, WideMap,
         GoalInWallMap, FenceMap, WideEdgeMap, PointMap}

VARIABLES
  map,          \* obstacles, grid, start, goal given to the constructor
  max_iter,     \* self.max_iter
  simplify,     \* self.simplify
  nodes,        \* self.nodes, a function on 0..n-1
  parent,       \* self.parent, None for the root
  cost,         \* self.cost
  it,           \* outer iterations of find_path started so far
  pc,           \* position inside find_path
  point,        \* local point of _sample_point, the latest rejected draw
  rand_point,   \* local rand_point
  nearest_idx,  \* local nearest_idx
  new_point,    \* local new_point
  new_idx,      \* local new_idx
  near_nodes,   \* local near_nodes (sequence of indices)
  min_parent,   \* local min_parent
  k,            \* position of the rewire loop in near_nodes
  raw,          \* the list built by _reconstruct_path (path[::-1])
  path,         \* the value find_path returned, <<>> if none
  result        \* "running", "path", "none", "raised" (IndexError), "hang"

\* ReplanPath.replan_rrt of src/scripts/replan.py
VARIABLES
  route,        \* the argument path of replan_rrt: the waypoints to patch
  seg_i,        \* the loop index i of replan_rrt, counted from 1
  new_route,    \* local new_path of replan_rrt
  rpc,          \* position inside replan_rrt
  replanned     \* what replan_rrt returned

\* WormholeManager and the endpoints of src/app.py
VARIABLES
  active_transfers,  \* self.active_transfers: transfer id -> its entry
  temp_dirs,         \* the temporary directories that exist on disk
  process,           \* the wormhole process of each transfer
  stdout,            \* the "Wormhole code is" line of each process
  tpc,               \* position of each _capture_wormhole_code_thread
  rq                 \* the requests: position, transfer id, clock, outcome

planner_vars == <<map, max_iter, simplify, nodes, parent, cost, it, pc, point,
                  rand_point, nearest_idx, new_point, new_idx, near_nodes,
                  min_parent, k, raw, path, result>>

replan_vars == <<route, seg_i, new_route, rpc, replanned>>

app_vars == <<active_transfers, temp_dirs, process, stdout, tpc, rq>>

\* the state outside the planner object
outside == <<replan_vars, app_vars>>

vars == <<planner_vars, replan_vars, app_vars>>

(* --------------------------- arithmetic -------------------------------- *)
Abs(a) == IF a < 0 THEN -a ELSE a
Min(a, b) == IF a < b THEN a ELSE b
Max(a, b) == IF a < b THEN b ELSE a
Last(s) == s[Len(s)]

Rows(m) == Len(m.grid)
Cols(m) == Len(m.grid[1])

\* np.linalg.norm(a - b), squared
Dist2(a, b) == (a[1] - b[1]) * (a[1] - b[1]) + (a[2] - b[2]) * (a[2] - b[2])

\* floor(sqrt(n)) for the squared distances of the lattice
Isqrt(n) == CHOOSE r \in 0..8 : r * r <= n /\ n < (r + 1) * (r + 1)

\* np.linalg.norm in fixed point: floor(CostScale * sqrt(d2))
Norm(a, b) ==
  LET n == Dist2(a, b) * CostScale * CostScale
      lo == Isqrt(Dist2(a, b)) * CostScale
  IN  CHOOSE r \in lo..(lo + CostScale) : r * r <= n /\ n < (r + 1) * (r + 1)

\* int(v / self.grid_scale) for v >= 0
ToCell(v) == v \div GridScale
CellOf(p) == <<ToCell(p[1]), ToCell(p[2])>>

(* ---------------------------- _bresenham ------------------------------- *)
\* err is kept doubled so that dx / 2.0 stays an integer
RECURSIVE BresX(_, _, _, _, _, _, _, _)
BresX(x, y, err2, x1, dx, dy, sx, sy) ==
  IF x = x1 THEN <<>>
  ELSE LET e == err2 - 2 * dy
       IN  <<<<x, y>>>> \o
           (IF e < 0 THEN BresX(x + sx, y + sy, e + 2 * dx, x1, dx, dy, sx, sy)
                     ELSE BresX(x + sx, y, e, x1, dx, dy, sx, sy))

RECURSIVE BresY(_, _, _, _, _, _, _, _)
BresY(x, y, err2, y1, dx, dy, sx, sy) ==
  IF y = y1 THEN <<>>
  ELSE LET e == err2 - 2 * dx
       IN  <<<<x, y>>>> \o
           (IF e < 0 THEN BresY(x + sx, y + sy, e + 2 * dy, y1, dx, dy, sx, sy)
                     ELSE BresY(x, y + sy, e, y1, dx, dy, sx, sy))

Bresenham(c0, c1) ==
  LET dx == Abs(c1[1] - c0[1])
      dy == Abs(c1[2] - c0[2])
      sx == IF c0[1] > c1[1] THEN -1 ELSE 1
      sy == IF c0[2] > c1[2] THEN -1 ELSE 1
  IN  IF dx > dy THEN BresX(c0[1], c0[2], dx, c1[1], dx, dy, sx, sy)
                 ELSE BresY(c0[1], c0[2], dy, c1[2], dx, dy, sx, sy)

(* --------------------------- _is_collision ----------------------------- *)
\* obstacle.contains(Point(p)) or obstacle.intersects(Point(p))
PointInRect(ob, p) ==
  ob[1] <= p[1] /\ p[1] <= ob[3] /\ ob[2] <= p[2] /\ p[2] <= ob[4]

Cross(a, b, c) ==
  (b[1] - a[1]) * (c[2] - a[2]) - (b[2] - a[2]) * (c[1] - a[1])

\* obstacle.contains(LineString([a, b])) or obstacle.intersects(...)
SegmentHitsRect(ob, a, b) ==
  LET corners == {<<ob[1], ob[2]>>, <<ob[1], ob[4]>>,
                  <<ob[3], ob[2]>>, <<ob[3], ob[4]>>}
  IN  /\ Min(a[1], b[1]) <= ob[3] /\ Max(a[1], b[1]) >= ob[1]
      /\ Min(a[2], b[2]) <= ob[4] /\ Max(a[2], b[2]) >= ob[2]
      /\ ~(\A c \in corners : Cross(a, b, c) > 0)
      /\ ~(\A c \in corners : Cross(a, b, c) < 0)

HitsObstacle(m, a, b) == \E ob \in m.obstacles : SegmentHitsRect(ob, a, b)

\* numpy index i into an axis of length n: negative indices wrap, anything
\* else out of range raises IndexError (None)
NpIndex(i, n) ==
  IF 0 <= i /\ i < n THEN i
  ELSE IF -n <= i /\ i < 0 THEN i + n
  ELSE None

\* the loop over bres_line: "free", "hit" or "raised"
RECURSIVE GridScan(_, _, _)
GridScan(m, cells, j) ==
  IF j > Len(cells) THEN "free"
  ELSE LET pt == cells[j]
           r  == NpIndex(pt[1] - 1, Rows(m))
           c  == NpIndex(pt[2] - 1, Cols(m))
       IN  IF 0 < pt[1] /\ pt[1] < Cols(m) /\ 0 < pt[2] /\ pt[2] < Rows(m)
             THEN "free"
           ELSE IF r = None \/ c = None THEN "raised"
           ELSE IF m.grid[r + 1][c + 1] >= TraversabilityThreshold THEN "hit"
           ELSE GridScan(m, cells, j + 1)

\* _is_collision(point1): the point query
PointCollision(m, p) == \E ob \in m.obstacles : PointInRect(ob, p)

\* _is_collision(point1, point2): "free", "hit" or "raised"
IsCollision(m, a, b) ==
  IF HitsObstacle(m, a, b) THEN "hit"
  ELSE GridScan(m, Bresenham(CellOf(a), CellOf(b)), 1)

(* ------------------------- _get_grid_cost ------------------------------ *)
GetGridCost(m, p) ==
  LET i == Max(0, Min(ToCell(p[2]), Rows(m) - 1))
      j == Max(0, Min(ToCell(p[1]), Cols(m) - 1))
  IN  m.grid[i + 1][j + 1]

(* ----------------------------- _path_cost ------------------------------ *)
RECURSIVE CellSum(_, _, _)
\* <<total_cost, valid_cells>> over cells[j..]
CellSum(m, cells, j) ==
  IF j > Len(cells) THEN <<0, 0>>
  ELSE LET rest == CellSum(m, cells, j + 1)
           x == cells[j][1]
           y == cells[j][2]
       IN  IF 0 <= y /\ y < Rows(m) /\ 0 <= x /\ x < Cols(m)
             THEN <<rest[1] + m.grid[y + 1][x + 1], rest[2] + 1>>
             ELSE rest

\* PathCost as a grid with cell costs of -2 would make it: distance * (1 - 2)
PathCostBelowZero(m, a, b) == 0 - Norm(a, b)

PathCost(m, a, b) ==
  LET cs == CellSum(m, Bresenham(CellOf(a), CellOf(b)), 1)
      total == cs[1]
      valid == cs[2]
  IN  IF valid > 0
        THEN (Norm(a, b) * (100 * valid + total)) \div (100 * valid)
        ELSE Norm(a, b)

(* ------------------------------ the tree ------------------------------- *)
NumNodes(ns) == Cardinality(DOMAIN ns)

\* Appended that writes over the last node
OverwritesLast(ns, p) == [ns EXCEPT ![NumNodes(ns) - 1] = p]

\* self.nodes.append(p) (lines 203, 237)
Appended(ns, p) == ns @@ (NumNodes(ns) :> p)

\* _nearest_node: distances.index(min(distances)), the lowest index wins
NearestNode(ns, p) ==
  CHOOSE i \in DOMAIN ns :
    /\ \A j \in DOMAIN ns : Dist2(ns[i], p) <= Dist2(ns[j], p)
    /\ \A j \in DOMAIN ns : Dist2(ns[j], p) = Dist2(ns[i], p) => i <= j

\* the integer d with d * d = d2, None if the distance is irrational
Root(d2) ==
  IF \E d \in 0..8 : d * d = d2 THEN CHOOSE d \in 0..8 : d * d = d2 ELSE None

\* the targets for which _steer returns a lattice point
Steerable(a, t) ==
  IF Dist2(a, t) < StepSize * StepSize THEN TRUE
  ELSE IF Root(Dist2(a, t)) = None THEN FALSE
  ELSE /\ ((t[1] - a[1]) * StepSize) % Root(Dist2(a, t)) = 0
       /\ ((t[2] - a[2]) * StepSize) % Root(Dist2(a, t)) = 0

\* _steer
Steer(a, t) ==
  IF Dist2(a, t) < StepSize * StepSize THEN t
  ELSE LET d == Root(Dist2(a, t))
       IN  <<a[1] + ((t[1] - a[1]) * StepSize) \div d,
             a[2] + ((t[2] - a[2]) * StepSize) \div d>>

\* the membership test of _get_near_nodes
IsNear(p, q) ==
  Dist2(p, q) < NeighborRadius * NeighborRadius /\ Dist2(p, q) > 0

RECURSIVE NearFrom(_, _, _)
NearFrom(ns, p, i) ==
  IF i >= NumNodes(ns) THEN <<>>
  ELSE (IF IsNear(ns[i], p) THEN <<i>> ELSE <<>>) \o NearFrom(ns, p, i + 1)

\* _get_near_nodes: indices in increasing order
GetNearNodes(ns, p) == NearFrom(ns, p, 0)

\* the acceptance test of _sample_point
SampleAccepted(m, p) ==
  GetGridCost(m, p) < TraversabilityThreshold /\ ~PointCollision(m, p)

\* the points random.uniform can draw, restricted to the lattice
SampleSpace(m) ==
  {<<x, y>> : x \in 0..(Cols(m) * GridScale - 1),
              y \in 0..(Rows(m) * GridScale - 1)}

\* GatePasses as a conjunction: unblocked and below the threshold
GatePassesBoth(m, p) ==
  ~PointCollision(m, p) /\ GetGridCost(m, p) < TraversabilityThreshold

\* the validity gate of find_path (lines 195-199)
GatePasses(m, p) ==
  ~PointCollision(m, p) \/ GetGridCost(m, p) < TraversabilityThreshold

\* ExtendCheck with the obstacle loop left out
ExtendCheckIgnoresObstacles(m, a, b) ==
  GridScan(m, Bresenham(CellOf(a), CellOf(b)), 1)

\* the segment test that admits new_point (line 201)
ExtendCheck(m, a, b) == IsCollision(m, a, b)

\* InitialCost without the cost of the nearest node
InitialCostEdgeOnly(m, cst, q, a, b) == PathCost(m, a, b)

\* the baseline cost through the nearest node (line 204)
InitialCost(m, cst, q, a, b) == cst[q] + PathCost(m, a, b)

\* CheaperParent that also takes a candidate of equal cost
CheaperParentOrEqual(c, mc) == c <= mc

\* the cost test of the "choose best parent" loop (line 214)
CheaperParent(c, mc) == c < mc

\* ParentCheck that lets every segment pass
ParentCheckSkipped(m, a, b) == "free"

\* the segment test of the "choose best parent" loop (line 212)
ParentCheck(m, a, b) == IsCollision(m, a, b)

\* the "choose best parent" loop: <<status, min_cost, min_parent>>
RECURSIVE BestParent(_, _, _, _, _, _, _, _)
BestParent(m, ns, cst, near, j, p, mc, mp) ==
  IF j > Len(near) THEN <<"ok", mc, mp>>
  ELSE LET idx == near[j]
           col == ParentCheck(m, ns[idx], p)
           c   == cst[idx] + PathCost(m, ns[idx], p)
       IN  IF col = "raised" THEN <<"raised", mc, mp>>
           ELSE IF col = "free" /\ CheaperParent(c, mc)
             THEN BestParent(m, ns, cst, near, j + 1, p, c, idx)
             ELSE BestParent(m, ns, cst, near, j + 1, p, mc, mp)

\* RewireCheaper with the comparison turned round
RewireCostlier(new_cost, old_cost) == new_cost > old_cost

\* the cost test of the rewire loop (line 227, left operand)
RewireCheaper(new_cost, old_cost) == new_cost < old_cost

\* RewireCost without the cost of the new node
RewireCostEdgeOnly(m, cst, n, a, b) == PathCost(m, a, b)

\* the cost of a near neighbour through the new node (line 226)
RewireCost(m, cst, n, a, b) == cst[n] + PathCost(m, a, b)

\* RewireCheck that lets every segment pass
RewireCheckSkipped(m, a, b) == "free"

\* the segment test of the rewire loop (lines 227-229, right operand)
RewireCheck(m, a, b) == IsCollision(m, a, b)

\* RewiredCosts that also passes the saving on to the children of idx
RewiredCostsPropagated(cst, par, idx, new_cost) ==
  [i \in DOMAIN cst |->
     IF i = idx THEN new_cost
     ELSE IF par[i] = idx THEN cst[i] - (cst[idx] - new_cost)
     ELSE cst[i]]

\* the cost table after idx is re-parented (line 231)
RewiredCosts(cst, par, idx, new_cost) == [cst EXCEPT ![idx] = new_cost]

\* GoalCost without the cost of the node the goal hangs on
GoalCostEdgeOnly(m, cst, n, a, g) == PathCost(m, a, g)

\* the cost stored for the goal node (lines 239-241)
GoalCost(m, cst, n, a, g) == cst[n] + PathCost(m, a, g)

\* WithinGoalTolerance with the whole step size as the tolerance
WithinStepSize(p, g) == Dist2(p, g) < StepSize * StepSize

\* the goal test (line 234)
WithinGoalTolerance(p, g) == 4 * Dist2(p, g) < StepSize * StepSize

(* ------------------- _reconstruct_path, _simplify_path ----------------- *)
\* the list built by the while loop of _reconstruct_path (goal first);
\* <<>> if the walk does not reach the root within fuel steps
RECURSIVE WalkUp(_, _, _, _)
WalkUp(ns, par, idx, fuel) ==
  IF idx = None THEN <<>>
  ELSE IF fuel = 0 THEN <<NoPoint>>
  ELSE <<ns[idx]>> \o WalkUp(ns, par, par[idx], fuel - 1)

Reverse(s) == [i \in 1..Len(s) |-> s[Len(s) + 1 - i]]

\* RawPath without the reversal
RawPathNotReversed(ns, par, goal_idx) == WalkUp(ns, par, goal_idx, NumNodes(ns))

\* path[::-1] of _reconstruct_path
RawPath(ns, par, goal_idx) == Reverse(WalkUp(ns, par, goal_idx, NumNodes(ns)))

\* the for loop of _simplify_path over path[idx:], started at anchor
RECURSIVE ForScan(_, _, _, _, _, _)
ForScan(m, p, anchor, j, start, idx) ==
  IF j > Len(p) THEN [st |-> "end", start |-> start, idx |-> idx]
  ELSE LET col == IsCollision(m, anchor, p[j])
       IN  IF col = "raised" THEN [st |-> "raised", start |-> start, idx |-> idx]
           ELSE IF col = "free"
             THEN IF p[j] = Last(p)
                    THEN [st |-> "append", start |-> p[j], idx |-> idx + 1]
                    ELSE ForScan(m, p, anchor, j + 1, p[j], idx + 1)
           ELSE [st |-> "append", start |-> start, idx |-> idx]

\* the while loop of _simplify_path; idx is the source's idx + 1
RECURSIVE SimplifyLoop(_, _, _, _)
SimplifyLoop(m, p, new_path, idx) ==
  IF Last(new_path) = Last(p) THEN [st |-> "ok", p |-> new_path]
  ELSE LET r == ForScan(m, p, Last(new_path), idx, Last(new_path), idx)
       IN  IF r.st = "raised" THEN [st |-> "raised", p |-> <<>>]
           ELSE IF r.st = "end" \/ r.idx = idx THEN [st |-> "hang", p |-> <<>>]
           ELSE SimplifyLoop(m, p, Append(new_path, r.start), r.idx)

\* SimplifyPath started from the second point of the path
SimplifyPathFromSecond(m, p) == SimplifyLoop(m, p, <<p[2]>>, 3)

\* _simplify_path
SimplifyPath(m, p) == SimplifyLoop(m, p, <<p[1]>>, 2)

(* ------------------------- src/app.py: names --------------------------- *)
\* most transfers created in one run of the application
MaxTransfers == 1

\* uuid4 gives every create_wormhole request a transfer id of its own
TransferIds == 1..MaxTransfers

\* a transfer id that no create_transfer has given out
UnknownId == 0

\* the cancel_wormhole request
CancelRequest == 0

Requests == TransferIds \cup {CancelRequest}

\* no request has arrived, nothing is registered
NoApp ==
  /\ active_transfers = <<>>
  /\ temp_dirs = {}
  /\ process = [t \in TransferIds |-> "none"]
  /\ stdout = [t \in TransferIds |-> "empty"]
  /\ tpc = [t \in TransferIds |-> "none"]
  /\ rq = [r \in Requests |->
             [pc |-> "idle", tid |-> r, expired |-> FALSE, res |-> "none"]]

(* ------------------------------- Init ---------------------------------- *)
\* replan_rrt is not running
NoReplan ==
  /\ route = <<>>
  /\ seg_i = 0
  /\ new_route = <<>>
  /\ rpc = "idle"
  /\ replanned = [kind |-> "nothing", route |-> <<>>]


\* RRTStar.__init__
Init ==
  /\ map \in Maps
  /\ max_iter \in {0, MaxIter}
  /\ simplify \in BOOLEAN
  /\ nodes = (0 :> map.start)
  /\ parent = (0 :> None)
  /\ cost = (0 :> 0)
  /\ it = 0
  /\ pc = "loop"
  /\ point = NoPoint
  /\ rand_point = NoPoint
  /\ nearest_idx = None
  /\ new_point = NoPoint
  /\ new_idx = None
  /\ near_nodes = <<>>
  /\ min_parent = None
  /\ k = 0
  /\ raw = <<>>
  /\ path = <<>>
  /\ result = "running"
  /\ NoReplan
  /\ NoApp

(* ------------------------------ find_path ------------------------------ *)
\* NextIteration with the range one too long
NextIterationOffByOne ==
  /\ pc = "loop" /\ it <= max_iter
  /\ it' = it + 1
  /\ pc' = "draw"
  /\ UNCHANGED <<point, map, max_iter, simplify, nodes, parent, cost, rand_point,
                 nearest_idx, new_point, new_idx, near_nodes, min_parent, k,
                 raw, path, result>>
  /\ UNCHANGED outside

\* for _ in range(self.max_iter): the next outer iteration starts
NextIteration ==
  /\ pc = "loop" /\ it < max_iter
  /\ it' = it + 1
  /\ pc' = "draw"
  /\ UNCHANGED <<point, map, max_iter, simplify, nodes, parent, cost, rand_point,
                 nearest_idx, new_point, new_idx, near_nodes, min_parent, k,
                 raw, path, result>>
  /\ UNCHANGED outside

\* the loop is exhausted: return None
ReturnNone ==
  /\ pc = "loop" /\ it >= max_iter
  /\ pc' = "done"
  /\ result' = "none"
  /\ UNCHANGED <<point, map, max_iter, simplify, nodes, parent, cost, it, rand_point,
                 nearest_idx, new_point, new_idx, near_nodes, min_parent, k,
                 raw, path>>
  /\ UNCHANGED outside

\* the draws followed here: those _steer maps to a lattice point
Drawable(ns, p) == Steerable(ns[NearestNode(ns, p)], p)

\* random.random() < 0.1: rand_point = self.goal
DrawGoal ==
  /\ pc = "draw"
  /\ Drawable(nodes, map.goal)
  /\ rand_point' = map.goal
  /\ pc' = "steer"
  /\ UNCHANGED <<point, map, max_iter, simplify, nodes, parent, cost, it,
                 nearest_idx, new_point, new_idx, near_nodes, min_parent, k,
                 raw, path, result>>
  /\ UNCHANGED outside

\* otherwise _sample_point is called
CallSamplePoint ==
  /\ pc = "draw"
  /\ pc' = "sample_point"
  /\ UNCHANGED <<point, map, max_iter, simplify, nodes, parent, cost, it, rand_point,
                 nearest_idx, new_point, new_idx, near_nodes, min_parent, k,
                 raw, path, result>>
  /\ UNCHANGED outside

\* _sample_point returns the first draw that passes its test; a rejected
\* draw leaves the state as it is and the loop draws again.  A uniform draw
\* falls on a point of the tree with probability zero: those draws are
\* left out.
SampleAt(p) ==
  /\ pc = "sample_point"
  /\ p \in SampleSpace(map)
  /\ SampleAccepted(map, p)
  /\ \A i \in DOMAIN nodes : nodes[i] # p
  /\ Drawable(nodes, p)
  /\ rand_point' = p
  /\ point' = NoPoint
  /\ pc' = "steer"
  /\ UNCHANGED <<map, max_iter, simplify, nodes, parent, cost, it,
                 nearest_idx, new_point, new_idx, near_nodes, min_parent, k,
                 raw, path, result>>
  /\ UNCHANGED outside

Lattice == UNION {SampleSpace(m) : m \in Maps}

SamplePoint == \E p \in Lattice : SampleAt(p)

\* a draw that fails the test of _sample_point: the while loop goes round
RejectSample ==
  /\ pc = "sample_point"
  /\ \E p \in SampleSpace(map) :
       /\ ~SampleAccepted(map, p)
       /\ point' = p
  /\ UNCHANGED <<map, max_iter, simplify, nodes, parent, cost, it, pc,
                 rand_point, nearest_idx, new_point, new_idx, near_nodes,
                 min_parent, k, raw, path, result>>
  /\ UNCHANGED outside

\* lines 190-199: nearest node, steering and the validity gate
SteerStep ==
  /\ pc = "steer"
  /\ LET ni == NearestNode(nodes, rand_point)
     IN  /\ nearest_idx' = ni
         /\ new_point' = Steer(nodes[ni], rand_point)
         /\ pc' = IF GatePasses(map, Steer(nodes[ni], rand_point))
                    THEN "extend" ELSE "draw"
  /\ UNCHANGED <<point, map, max_iter, simplify, nodes, parent, cost, it, rand_point,
                 new_idx, near_nodes, min_parent, k, raw, path, result>>
  /\ UNCHANGED outside

\* lines 201-219: the segment test, the append and the choice of the parent
Extend ==
  /\ pc = "extend"
  /\ LET nearest == nodes[nearest_idx]
         col == ExtendCheck(map, nearest, new_point)
         ni  == NumNodes(nodes)
         ns  == Appended(nodes, new_point)
         near == GetNearNodes(ns, new_point)
         bp  == BestParent(map, ns, cost, near, 1, new_point,
                           InitialCost(map, cost, nearest_idx, nearest, new_point),
                           nearest_idx)
     IN  CASE col = "raised" ->
                /\ pc' = "done" /\ result' = "raised"
                /\ UNCHANGED <<nodes, parent, cost, new_idx, near_nodes,
                               min_parent, k>>
           [] col = "hit" ->
                /\ pc' = "loop"
                /\ UNCHANGED <<nodes, parent, cost, new_idx, near_nodes,
                               min_parent, k, result>>
           [] col = "free" /\ bp[1] = "raised" ->
                /\ pc' = "done" /\ result' = "raised"
                /\ nodes' = ns
                /\ new_idx' = ni
                /\ near_nodes' = near
                /\ UNCHANGED <<parent, cost, min_parent, k>>
           [] col = "free" /\ bp[1] = "ok" ->
                /\ nodes' = ns
                /\ new_idx' = ni
                /\ near_nodes' = near
                /\ min_parent' = bp[3]
                /\ parent' = parent @@ (ni :> bp[3])
                /\ cost' = cost @@ (ni :> bp[2])
                /\ k' = 1
                /\ pc' = "rewire"
                /\ UNCHANGED result
  /\ UNCHANGED <<point, map, max_iter, simplify, it, rand_point, nearest_idx,
                 new_point, raw, path>>
  /\ UNCHANGED outside

\* lines 222-231: one pass of the rewire loop
Rewire ==
  /\ pc = "rewire" /\ k <= Len(near_nodes)
  /\ LET idx == near_nodes[k]
         new_cost == RewireCost(map, cost, new_idx, new_point, nodes[idx])
     IN  IF idx = min_parent \/ ~RewireCheaper(new_cost, cost[idx])
           THEN /\ k' = k + 1
                /\ UNCHANGED <<parent, cost, pc, result>>
         ELSE CASE RewireCheck(map, new_point, nodes[idx]) = "raised" ->
                     /\ pc' = "done" /\ result' = "raised"
                     /\ UNCHANGED <<parent, cost, k>>
                [] RewireCheck(map, new_point, nodes[idx]) = "hit" ->
                     /\ k' = k + 1
                     /\ UNCHANGED <<parent, cost, pc, result>>
                [] RewireCheck(map, new_point, nodes[idx]) = "free" ->
                     /\ parent' = [parent EXCEPT ![idx] = new_idx]
                     /\ cost' = RewiredCosts(cost, parent, idx, new_cost)
                     /\ k' = k + 1
                     /\ UNCHANGED <<pc, result>>
  /\ UNCHANGED <<point, map, max_iter, simplify, nodes, it, rand_point, nearest_idx,
                 new_point, new_idx, near_nodes, min_parent, raw, path>>
  /\ UNCHANGED outside

\* the rewire loop is over and new_point is not within the goal tolerance,
\* or the segment to the goal is blocked
GoalMissed ==
  /\ pc = "rewire" /\ k > Len(near_nodes)
  /\ \/ ~WithinGoalTolerance(new_point, map.goal)
     \/ IsCollision(map, new_point, map.goal) = "hit"
  /\ pc' = "loop"
  /\ UNCHANGED <<point, map, max_iter, simplify, nodes, parent, cost, it, rand_point,
                 nearest_idx, new_point, new_idx, near_nodes, min_parent, k,
                 raw, path, result>>
  /\ UNCHANGED outside

\* lines 234-242: the goal is connected and the path is returned
GoalReached ==
  /\ pc = "rewire" /\ k > Len(near_nodes)
  /\ WithinGoalTolerance(new_point, map.goal)
  /\ IsCollision(map, new_point, map.goal) # "hit"
  /\ IF IsCollision(map, new_point, map.goal) = "raised"
       THEN /\ result' = "raised"
            /\ UNCHANGED <<nodes, parent, cost, raw, path>>
     ELSE LET gi == NumNodes(nodes)
              ns == Appended(nodes, map.goal)
              pa == parent @@ (gi :> new_idx)
              rp == RawPath(ns, pa, gi)
              sp == SimplifyPath(map, rp)
          IN  /\ nodes' = ns
              /\ parent' = pa
              /\ cost' = cost @@
                   (gi :> GoalCost(map, cost, new_idx, new_point, map.goal))
              /\ raw' = rp
              /\ IF ~simplify THEN path' = rp /\ result' = "path"
                 ELSE IF sp.st = "ok" THEN path' = sp.p /\ result' = "path"
                 ELSE path' = <<>> /\ result' = sp.st
  /\ pc' = "done"
  /\ UNCHANGED <<point, map, max_iter, simplify, it, rand_point, nearest_idx,
                 new_point, new_idx, near_nodes, min_parent, k>>
  /\ UNCHANGED outside

Next ==
  \/ NextIteration
  \/ ReturnNone
  \/ DrawGoal
  \/ CallSamplePoint
  \/ SamplePoint
  \/ RejectSample
  \/ SteerStep
  \/ Extend
  \/ Rewire
  \/ GoalMissed
  \/ GoalReached

Spec == Init /\ [][Next]_vars

\* the program keeps running; the coin of line 184 falls on the side of
\* _sample_point again and again, and _sample_point, which draws uniformly,
\* draws a point that passes its test whenever there is one.  The first
\* condition is WF_vars(Next) with the enabling condition of Next written
\* out: a step of find_path can be taken exactly while it has not ended.
FairSpec ==
  /\ Init /\ [][Next]_vars
  /\ []<>(pc = "done") \/ []<><<Next>>_vars
  /\ SF_vars(CallSamplePoint)
  /\ WF_vars(SamplePoint)

(* ------------------- find_path called more than once ------------------- *)
\* RRTStar.__init__ of a planner with a budget of ReuseIter iterations
InitReuse ==
  /\ map \in Maps
  /\ max_iter = ReuseIter
  /\ simplify \in BOOLEAN
  /\ nodes = (0 :> map.start)
  /\ parent = (0 :> None)
  /\ cost = (0 :> 0)
  /\ it = 0
  /\ pc = "loop"
  /\ point = NoPoint
  /\ rand_point = NoPoint
  /\ nearest_idx = None
  /\ new_point = NoPoint
  /\ new_idx = None
  /\ near_nodes = <<>>
  /\ min_parent = None
  /\ k = 0
  /\ raw = <<>>
  /\ path = <<>>
  /\ result = "running"
  /\ NoReplan
  /\ NoApp

\* find_path is called once more on the same object after it returned a
\* path or None: its locals are new, self.nodes, self.parent and self.cost
\* are assigned nowhere but in __init__ and are what the last call left
FindPathAgain ==
  /\ pc = "done" /\ result \in {"path", "none"}
  /\ NumNodes(nodes) <= MaxTree
  /\ pc' = "loop"
  /\ it' = 0
  /\ result' = "running"
  /\ point' = NoPoint
  /\ rand_point' = NoPoint
  /\ nearest_idx' = None
  /\ new_point' = NoPoint
  /\ new_idx' = None
  /\ near_nodes' = <<>>
  /\ min_parent' = None
  /\ k' = 0
  /\ raw' = <<>>
  /\ path' = <<>>
  /\ UNCHANGED <<map, max_iter, simplify, nodes, parent, cost>>
  /\ UNCHANGED outside

NextReuse ==
  \/ Next
  \/ FindPathAgain

ReuseSpec == InitReuse /\ [][NextReuse]_vars

(* ------------------- replan_rrt of scripts/replan.py ------------------- *)
\* longest route given to replan_rrt
MaxRoute == 3
\* iteration budget of the planners that _rrt constructs
ReplanIter == 2

\* args.low: the corner of the map, the origin of the planner's frame
Low == <<2, 1>>

\* the barriers given to ReplanPath, in world coordinates
Barriers == {<<3, 2, 4, 2>>}

\* the cost grid that _reshape_grid hands to the planner
ReplanGrid == << <<0, 0, 0>>, <<0, 0, 0>>, <<0, 0, 0>> >>

\* the waypoints (x, y, z) that routes are made of
Waypoints == {<<3, 1, 7>>, <<3, 3, 7>>, <<2, 1, 7>>}

\* the routes: at least two waypoints, no waypoint directly repeated
Routes ==
  UNION {{r \in [1..n -> Waypoints] : \A j \in 1..(n - 1) : r[j] # r[j + 1]} :
           n \in 2..MaxRoute}

\* start[:2] - self.args.low
ToPlanner(p) == <<p[1] - Low[1], p[2] - Low[2]>>

\* _convert_obstacles
ConvertObstacles(obs) ==
  {<<ob[1] - Low[1], ob[2] - Low[2], ob[3] - Low[1], ob[4] - Low[2]>> : ob \in obs}

\* path += self.args.low and the added z column of zeros (lines 98-99)
ToWorld(p) == [j \in 1..Len(p) |-> <<p[j][1] + Low[1], p[j][2] + Low[2], 0>>]

\* _colides for the straight segment between two waypoints
Colides(a, b, obs) ==
  \E ob \in obs : SegmentHitsRect(ob, <<a[1], a[2]>>, <<b[1], b[2]>>)

\* Interior that keeps the end points of the way
WholeWay(way) == way

\* way[1:-1]
Interior(way) == SubSeq(way, 2, Len(way) - 1)

\* no planner has been constructed
NoPlanner ==
  /\ map = [grid |-> ReplanGrid, obstacles |-> {}, start |-> NoPoint, goal |-> NoPoint]
  /\ max_iter = ReplanIter
  /\ nodes = (0 :> NoPoint)
  /\ parent = (0 :> None)
  /\ cost = (0 :> 0)
  /\ it = 0
  /\ pc = "absent"
  /\ point = NoPoint
  /\ rand_point = NoPoint
  /\ nearest_idx = None
  /\ new_point = NoPoint
  /\ new_idx = None
  /\ near_nodes = <<>>
  /\ min_parent = None
  /\ k = 0
  /\ raw = <<>>
  /\ path = <<>>
  /\ result = "running"

\* replan_rrt(path) is called
InitReplan ==
  /\ route \in Routes
  /\ simplify \in BOOLEAN
  /\ seg_i = 1
  /\ new_route = <<>>
  /\ rpc = "loop"
  /\ replanned = [kind |-> "nothing", route |-> <<>>]
  /\ NoPlanner
  /\ NoApp

\* lines 30-38 and 89-94: one pass of the loop up to the call of find_path;
\* a blocked segment gets a planner of its own
ReplanSegment ==
  /\ rpc = "loop" /\ seg_i < Len(route)
  /\ new_route' = Append(new_route, route[seg_i])
  /\ IF Colides(route[seg_i], route[seg_i + 1], Barriers)
       THEN /\ rpc' = "rrt"
            /\ map' = [grid |-> ReplanGrid,
                       obstacles |-> ConvertObstacles(Barriers),
                       start |-> ToPlanner(route[seg_i]),
                       goal |-> ToPlanner(route[seg_i + 1])]
            /\ max_iter' = ReplanIter
            /\ nodes' = (0 :> ToPlanner(route[seg_i]))
            /\ parent' = (0 :> None)
            /\ cost' = (0 :> 0)
            /\ it' = 0
            /\ pc' = "loop"
            /\ point' = NoPoint
            /\ rand_point' = NoPoint
            /\ nearest_idx' = None
            /\ new_point' = NoPoint
            /\ new_idx' = None
            /\ near_nodes' = <<>>
            /\ min_parent' = None
            /\ k' = 0
            /\ raw' = <<>>
            /\ path' = <<>>
            /\ result' = "running"
            /\ UNCHANGED <<simplify, seg_i>>
       ELSE /\ rpc' = "loop"
            /\ seg_i' = seg_i + 1
            /\ UNCHANGED planner_vars
  /\ UNCHANGED <<route, replanned, app_vars>>

\* lines 94-101 and 39-42: find_path has ended and replan_rrt goes on
RrtReturns ==
  /\ rpc = "rrt" /\ pc = "done"
  /\ CASE result = "path" ->
            /\ new_route' = new_route \o Interior(ToWorld(path))
            /\ seg_i' = seg_i + 1
            /\ rpc' = "loop"
            /\ UNCHANGED replanned
       [] result = "none" ->
            /\ replanned' = [kind |-> "none", route |-> <<>>]
            /\ rpc' = "done"
            /\ UNCHANGED <<new_route, seg_i>>
       [] result \in {"raised", "hang"} ->
            /\ replanned' = [kind |-> result, route |-> <<>>]
            /\ rpc' = "done"
            /\ UNCHANGED <<new_route, seg_i>>
  /\ UNCHANGED <<planner_vars, route, app_vars>>

\* lines 44-45: the last waypoint is appended and the route returned
ReplanReturn ==
  /\ rpc = "loop" /\ seg_i = Len(route)
  /\ new_route' = Append(new_route, Last(route))
  /\ replanned' = [kind |-> "route", route |-> Append(new_route, Last(route))]
  /\ rpc' = "done"
  /\ UNCHANGED <<planner_vars, route, seg_i, app_vars>>

ReplanNext ==
  \/ Next
  \/ ReplanSegment
  \/ RrtReturns
  \/ ReplanReturn

ReplanSpec == InitReplan /\ [][ReplanNext]_vars

(* ------------------ src/app.py: the wormhole manager ------------------- *)
\* "code": None of a new entry
NoCode == "none"

\* the code matched by the regular expression of line 104
WormholeCode == "7-alpha-beta"

\* process.poll() is not None
Exited(t) == process[t] \in {"ok", "failed", "killed"}

\* process.kill() left out
NotKilled(p) == p

\* the state of a process after process.kill()
Killed(p) == IF p = "running" THEN "killed" ELSE p

\* self.active_transfers.pop(t, None)
Popped(a, t) ==
  IF DOMAIN a \subseteq {t} THEN <<>> ELSE [x \in DOMAIN a \ {t} |-> a[x]]

SetRq(r, to, res) == [rq EXCEPT ![r].pc = to, ![r].res = res]

\* the application is started; no planner and no replanner is part of it
InitApp ==
  /\ NoApp
  /\ NoPlanner
  /\ simplify = FALSE
  /\ NoReplan

\* create_wormhole up to the return of create_transfer (lines 190-195,
\* 31-77): the entry is registered and the background thread started
CreateTransfer(r) ==
  /\ rq[r].pc = "idle"
  /\ active_transfers' = active_transfers @@ (r :> [status |-> "running", code |-> NoCode])
  /\ temp_dirs' = temp_dirs \cup {r}
  /\ process' = [process EXCEPT ![r] = "running"]
  /\ tpc' = [tpc EXCEPT ![r] = "start"]
  /\ rq' = SetRq(r, "poll", "none")
  /\ UNCHANGED stdout
  /\ UNCHANGED <<planner_vars, replan_vars>>

\* no GPX data (lines 191-192), or Popen raises and create_transfer removes
\* the directory it made (lines 52-54): nothing is registered
CreateFails(r) ==
  /\ rq[r].pc = "idle"
  /\ rq' = SetRq(r, "done", "error")
  /\ UNCHANGED <<active_transfers, temp_dirs, process, stdout, tpc>>
  /\ UNCHANGED <<planner_vars, replan_vars>>

\* wormhole send prints its code
ProcessPrintsCode(t) ==
  /\ process[t] = "running" /\ stdout[t] = "empty"
  /\ stdout' = [stdout EXCEPT ![t] = "code"]
  /\ UNCHANGED <<active_transfers, temp_dirs, process, tpc, rq>>
  /\ UNCHANGED <<planner_vars, replan_vars>>

\* wormhole send ends by itself, with return code 0 or not
ProcessExits(t) ==
  /\ process[t] = "running"
  /\ \E how \in {"ok", "failed"} : process' = [process EXCEPT ![t] = how]
  /\ UNCHANGED <<active_transfers, temp_dirs, stdout, tpc, rq>>
  /\ UNCHANGED <<planner_vars, replan_vars>>

\* line 83: the thread looks its entry up
ThreadStart(t) ==
  /\ tpc[t] = "start"
  /\ tpc' = [tpc EXCEPT ![t] = IF t \in DOMAIN active_transfers THEN "loop" ELSE "done"]
  /\ UNCHANGED <<active_transfers, temp_dirs, process, stdout, rq>>
  /\ UNCHANGED <<planner_vars, replan_vars>>

\* lines 96-118: a pass of the loop reads the line with the code
ThreadCaptures(t) ==
  /\ tpc[t] = "loop" /\ stdout[t] = "code"
  /\ stdout' = [stdout EXCEPT ![t] = "read"]
  /\ active_transfers' = [active_transfers EXCEPT ![t].code = WormholeCode]
  /\ tpc' = [tpc EXCEPT ![t] = "wait"]
  /\ UNCHANGED <<temp_dirs, process, rq>>
  /\ UNCHANGED <<planner_vars, replan_vars>>

\* lines 120-124: a pass of the loop finds no code and the process ended
ThreadSeesExit(t) ==
  /\ tpc[t] = "loop" /\ stdout[t] # "code" /\ Exited(t)
  /\ tpc' = [tpc EXCEPT ![t] = "wait"]
  /\ UNCHANGED <<active_transfers, temp_dirs, process, stdout, rq>>
  /\ UNCHANGED <<planner_vars, replan_vars>>

\* lines 127-130: process.wait returns
ThreadWaitReturns(t) ==
  /\ tpc[t] = "wait" /\ Exited(t)
  /\ active_transfers' =
       [active_transfers EXCEPT
          ![t].status = IF process[t] = "ok" THEN "completed" ELSE "failed"]
  /\ tpc' = [tpc EXCEPT ![t] = "cleanup"]
  /\ UNCHANGED <<temp_dirs, process, stdout, rq>>
  /\ UNCHANGED <<planner_vars, replan_vars>>

\* lines 127, 132-138: process.wait raises TimeoutExpired after 60 s
ThreadWaitTimesOut(t) ==
  /\ tpc[t] = "wait" /\ ~Exited(t)
  /\ active_transfers' = [active_transfers EXCEPT ![t].status = "failed"]
  /\ process' = [process EXCEPT ![t] = Killed(process[t])]
  /\ tpc' = [tpc EXCEPT ![t] = "cleanup"]
  /\ UNCHANGED <<temp_dirs, stdout, rq>>
  /\ UNCHANGED <<planner_vars, replan_vars>>

\* lines 139-141, 170: the finally block pops the entry
CleanupPop(t) ==
  /\ tpc[t] = "cleanup"
  /\ active_transfers' = Popped(active_transfers, t)
  /\ tpc' = [tpc EXCEPT ![t] = "rmtree"]
  /\ UNCHANGED <<temp_dirs, process, stdout, rq>>
  /\ UNCHANGED <<planner_vars, replan_vars>>

\* lines 171-176: the temporary directory is removed
CleanupRmtree(t) ==
  /\ tpc[t] = "rmtree"
  /\ temp_dirs' = temp_dirs \ {t}
  /\ tpc' = [tpc EXCEPT ![t] = "done"]
  /\ UNCHANGED <<active_transfers, process, stdout, rq>>
  /\ UNCHANGED <<planner_vars, replan_vars>>

\* time passes: the timeout of get_transfer_code runs out
Tick(r) ==
  /\ rq[r].pc \in {"poll", "code_in", "code_get", "code_ret"}
  /\ ~rq[r].expired
  /\ rq' = [rq EXCEPT ![r].expired = TRUE]
  /\ UNCHANGED <<active_transfers, temp_dirs, process, stdout, tpc>>
  /\ UNCHANGED <<planner_vars, replan_vars>>

\* line 146 (and 198-203): the loop condition of get_transfer_code; when
\* the time is up it returns None and create_wormhole calls cancel_transfer
GetCodeLoop(r) ==
  /\ rq[r].pc = "poll"
  /\ rq' = SetRq(r, IF rq[r].expired THEN "cancel_in" ELSE "code_in", "none")
  /\ UNCHANGED <<active_transfers, temp_dirs, process, stdout, tpc>>
  /\ UNCHANGED <<planner_vars, replan_vars>>

\* line 147: transfer_id in self.active_transfers
GetCodeIn(r) ==
  /\ rq[r].pc = "code_in"
  /\ rq' = SetRq(r, IF rq[r].tid \in DOMAIN active_transfers
                      THEN "code_get" ELSE "poll", "none")
  /\ UNCHANGED <<active_transfers, temp_dirs, process, stdout, tpc>>
  /\ UNCHANGED <<planner_vars, replan_vars>>

\* lines 147-149: self.active_transfers[transfer_id].get("code")
GetCodeGet(r) ==
  /\ rq[r].pc = "code_get"
  /\ rq' = IF rq[r].tid \notin DOMAIN active_transfers
             THEN SetRq(r, "done", "KeyError")
           ELSE IF active_transfers[rq[r].tid].code # NoCode
             THEN SetRq(r, "code_ret", "none")
           ELSE SetRq(r, "poll", "none")
  /\ UNCHANGED <<active_transfers, temp_dirs, process, stdout, tpc>>
  /\ UNCHANGED <<planner_vars, replan_vars>>

\* line 150: return self.active_transfers[transfer_id]["code"]
GetCodeReturn(r) ==
  /\ rq[r].pc = "code_ret"
  /\ rq' = IF rq[r].tid \notin DOMAIN active_transfers
             THEN SetRq(r, "done", "KeyError")
             ELSE SetRq(r, "done", active_transfers[rq[r].tid].code)
  /\ UNCHANGED <<active_transfers, temp_dirs, process, stdout, tpc>>
  /\ UNCHANGED <<planner_vars, replan_vars>>

\* lines 220-223: a cancel_wormhole request arrives with some transfer id
CancelWormhole ==
  /\ rq[CancelRequest].pc = "idle"
  /\ \E t \in TransferIds \cup {UnknownId} :
       rq' = [rq EXCEPT ![CancelRequest].pc = "cancel_in", ![CancelRequest].tid = t]
  /\ UNCHANGED <<active_transfers, temp_dirs, process, stdout, tpc>>
  /\ UNCHANGED <<planner_vars, replan_vars>>

\* line 156: transfer_id not in self.active_transfers
CancelIn(r) ==
  /\ rq[r].pc = "cancel_in"
  /\ rq' = IF rq[r].tid \in DOMAIN active_transfers
             THEN SetRq(r, "cancel_kill", "none")
             ELSE SetRq(r, "done", "unknown")
  /\ UNCHANGED <<active_transfers, temp_dirs, process, stdout, tpc>>
  /\ UNCHANGED <<planner_vars, replan_vars>>

\* lines 160-162: the process is looked up and killed if it still runs
CancelKill(r) ==
  /\ rq[r].pc = "cancel_kill"
  /\ IF rq[r].tid \notin DOMAIN active_transfers
       THEN rq' = SetRq(r, "done", "KeyError") /\ UNCHANGED process
       ELSE /\ rq' = SetRq(r, "cancel_mark", "none")
            /\ process' = [process EXCEPT ![rq[r].tid] = Killed(process[rq[r].tid])]
  /\ UNCHANGED <<active_transfers, temp_dirs, stdout, tpc>>
  /\ UNCHANGED <<planner_vars, replan_vars>>

\* lines 165-166: the status is set through the dictionary
CancelMark(r) ==
  /\ rq[r].pc = "cancel_mark"
  /\ IF rq[r].tid \notin DOMAIN active_transfers
       THEN rq' = SetRq(r, "done", "KeyError") /\ UNCHANGED active_transfers
       ELSE /\ rq' = SetRq(r, "done", "cancelled")
            /\ active_transfers' =
                 [active_transfers EXCEPT ![rq[r].tid].status = "cancelled"]
  /\ UNCHANGED <<temp_dirs, process, stdout, tpc>>
  /\ UNCHANGED <<planner_vars, replan_vars>>

\* the steps of the background thread of transfer t
ThreadStep(t) ==
  \/ ThreadStart(t)
  \/ ThreadCaptures(t)
  \/ ThreadSeesExit(t)
  \/ ThreadWaitReturns(t)
  \/ ThreadWaitTimesOut(t)
  \/ CleanupPop(t)
  \/ CleanupRmtree(t)

\* the steps of a request once it has arrived
RequestStep(r) ==
  \/ GetCodeLoop(r)
  \/ GetCodeIn(r)
  \/ GetCodeGet(r)
  \/ GetCodeReturn(r)
  \/ CancelIn(r)
  \/ CancelKill(r)
  \/ CancelMark(r)

AppNext ==
  \/ \E r \in TransferIds : CreateTransfer(r)
  \/ \E r \in TransferIds : CreateFails(r)
  \/ \E t \in TransferIds : ProcessPrintsCode(t)
  \/ \E t \in TransferIds : ProcessExits(t)
  \/ \E t \in TransferIds : ThreadStep(t)
  \/ \E r \in TransferIds : Tick(r)
  \/ \E r \in Requests : RequestStep(r)
  \/ CancelWormhole

AppSpec == InitApp /\ [][AppNext]_vars

\* every thread and every request handler keeps running, and time passes
AppFairSpec ==
  /\ AppSpec
  /\ \A t \in TransferIds :
       /\ WF_vars(ThreadStep(t))
       /\ WF_vars(RequestStep(t))
       /\ WF_vars(Tick(t))

(* ------------------------- auxiliary notions --------------------------- *)
\* the non-root nodes that have a parent entry
Children == {i \in DOMAIN parent : parent[i] # None}

\* following parent pointers from i reaches the root within fuel steps
RECURSIVE ReachesRoot(_, _)
ReachesRoot(i, fuel) ==
  IF i = 0 THEN parent[0] = None
  ELSE IF fuel = 0 \/ i \notin DOMAIN parent \/ parent[i] = None THEN FALSE
  ELSE ReachesRoot(parent[i], fuel - 1)

\* the sum of the edge costs on the parent path from the root to i
RECURSIVE TreeCost(_, _)
TreeCost(i, fuel) ==
  IF i = 0 \/ fuel = 0 \/ parent[i] = None THEN 0
  ELSE PathCost(map, nodes[parent[i]], nodes[i]) + TreeCost(parent[i], fuel - 1)

\* no node on the parent path from i to the root was re-parented by a
\* rewire (a rewire gives a node a parent of higher index)
RECURSIVE NeverRewired(_, _)
NeverRewired(i, fuel) ==
  IF i = 0 \/ fuel = 0 \/ parent[i] = None THEN TRUE
  ELSE parent[i] < i /\ NeverRewired(parent[i], fuel - 1)

\* a lies on the parent path from i to the root, i itself included
RECURSIVE OnParentPath(_, _, _)
OnParentPath(a, i, fuel) ==
  IF i = a THEN TRUE
  ELSE IF fuel = 0 \/ i \notin DOMAIN parent \/ parent[i] = None THEN FALSE
  ELSE OnParentPath(a, parent[i], fuel - 1)

\* s is an order-preserving subsequence of t (from positions i, j on)
RECURSIVE SubseqFrom(_, _, _, _)
SubseqFrom(s, i, t, j) ==
  IF i > Len(s) THEN TRUE
  ELSE IF j > Len(t) THEN FALSE
  ELSE IF s[i] = t[j] THEN SubseqFrom(s, i + 1, t, j + 1)
  ELSE SubseqFrom(s, i, t, j + 1)

Segments(p) == {i \in 1..Len(p) : i < Len(p)}

(* ------------------------------- claims -------------------------------- *)
\* C1: every consecutive pair of points of a returned path is unblocked
\* under the obstacle list and grid of the planner, simplify on or off.
CollisionSoundness ==
  result = "path" =>
    \A i \in Segments(path) : IsCollision(map, path[i], path[i + 1]) = "free"

\* a detour around the wall was returned after shortcutting
DetourReturned ==
  /\ result = "path" /\ map = WallMap /\ simplify
  /\ Len(path) >= 3 /\ Len(path) < Len(raw)

\* C2: a returned path starts at start and ends at goal, and without
\* simplification its consecutive points are parent and child in the tree.
PathFromStartToGoal ==
  result = "path" =>
    /\ path[1] = map.start
    /\ Last(path) = map.goal
    /\ ~simplify =>
         \A i \in Segments(path) :
           \E c \in Children :
             nodes[c] = path[i + 1] /\ nodes[parent[c]] = path[i]

\* a raw path of at least three points was returned
LongRawPathReturned ==
  result = "path" /\ ~simplify /\ Len(path) >= 4 /\ map.start # map.goal

Acyclicity ==
  /\ parent[0] = None
  /\ \A i \in DOMAIN parent :
       /\ ReachesRoot(i, NumNodes(nodes))
       /\ parent[i] = None => i = 0

\* a rewire has re-parented a node
SomeNodeRewired == \E i \in Children : parent[i] > i

\* C5 as stated: cost[i] is the sum of the edge costs of the parent path.
CostIsPathSum ==
  \A i \in DOMAIN cost : cost[i] = TreeCost(i, NumNodes(nodes))

\* C5 amended: cost[i] is at least the sum of the edge costs of the current
\* parent path, and equals it when no node on that path was re-parented.
CostBoundsPathSum ==
  \A i \in DOMAIN cost :
    LET sum == TreeCost(i, NumNodes(nodes))
    IN  /\ cost[i] >= sum
        /\ NeverRewired(i, NumNodes(nodes)) => cost[i] = sum

\* a node below a re-parented node keeps a stored cost above its path sum
StaleDescendant ==
  \E i \in Children :
    /\ parent[parent[i]] # None /\ parent[parent[i]] > parent[i]
    /\ cost[i] > TreeCost(i, NumNodes(nodes))

\* the segment a -> b rasterizes to a cell strictly inside the grid whose
\* own cost (row = y, column = x) is at or above the threshold
InteriorBlockingCell(m, a, b) ==
  LET cells == Bresenham(CellOf(a), CellOf(b))
  IN  \E j \in 1..Len(cells) :
        /\ 0 < cells[j][1] /\ cells[j][1] < Cols(m)
        /\ 0 < cells[j][2] /\ cells[j][2] < Rows(m)
        /\ m.grid[cells[j][2] + 1][cells[j][1] + 1] >= TraversabilityThreshold

\* C6: a segment query that hits no obstacle is blocked whenever one of its
\* rasterized cells strictly inside the grid costs at least the threshold.
InteriorCellBlocks ==
  (/\ pc = "extend"
   /\ ~HitsObstacle(map, nodes[nearest_idx], new_point)
   /\ InteriorBlockingCell(map, nodes[nearest_idx], new_point))
  => IsCollision(map, nodes[nearest_idx], new_point) = "hit"

\* every in-grid cell rasterized from a -> b costs less than the threshold
WithinTraversable(m, a, b) ==
  LET cells == Bresenham(CellOf(a), CellOf(b))
  IN  \A j \in 1..Len(cells) :
        (/\ 0 <= cells[j][1] /\ cells[j][1] < Cols(m)
         /\ 0 <= cells[j][2] /\ cells[j][2] < Rows(m))
        => m.grid[cells[j][2] + 1][cells[j][1] + 1] < TraversabilityThreshold

\* C7: on the corridor map every segment of a returned path rasterizes to
\* corridor cells only.
PathStaysInCorridor ==
  (map = CorridorMap /\ result = "path") =>
    \A i \in Segments(path) : WithinTraversable(map, path[i], path[i + 1])

\* C8: find_path always terminates, also on a map where no point passes
\* the acceptance test of _sample_point.
FindPathTerminates == <>(pc = "done")

\* C9: the simplified path is an order-preserving subsequence of the raw
\* path with the same first and last point and no more points.
SimplificationNonDegradation ==
  (result = "path" /\ simplify) =>
    /\ SubseqFrom(path, 1, raw, 1)
    /\ path[1] = raw[1]
    /\ Last(path) = Last(raw)
    /\ Len(path) <= Len(raw)

\* simplification dropped interior points of a raw path
ShortcutTaken ==
  result = "path" /\ simplify /\ Len(raw) >= 4 /\ Len(path) = 2

\* C11: in a segment query that hits no obstacle, cells on the boundary of
\* the grid or outside it never block: with no blocking cell strictly
\* inside the grid among the rasterized cells, the query is not blocked.
BoundaryCellsNeverBlock ==
  (/\ pc = "extend"
   /\ ~HitsObstacle(map, nodes[nearest_idx], new_point)
   /\ ~InteriorBlockingCell(map, nodes[nearest_idx], new_point))
  => IsCollision(map, nodes[nearest_idx], new_point) # "hit"

\* C12: no grid query of the planner ends in an index error, on square and
\* on non-square grids.
GridQueriesComplete == result # "raised"

\* C13: every call of find_path, a second call on the same planner
\* included, starts from a tree that holds only the root.
CallStartsFromRoot ==
  (pc = "loop" /\ it = 0) =>
    /\ nodes = (0 :> map.start)
    /\ parent = (0 :> None)
    /\ cost = (0 :> 0)

\* the candidates of the best-parent choice for the node just added: the
\* nearest node and the near neighbours with an unblocked segment to it
ParentCandidates ==
  {nearest_idx} \cup
  {c \in DOMAIN cost : /\ c # new_idx
                       /\ IsNear(nodes[c], new_point)
                       /\ IsCollision(map, nodes[c], new_point) = "free"}

\* the cost of the node just added if c were its parent
CostThrough(c) == cost[c] + PathCost(map, nodes[c], new_point)

\* C14: right after an extension the new node has the cheapest candidate as
\* its parent and that cost as its cost; the nearest node is kept unless a
\* near neighbour is strictly cheaper, and among equally cheap near
\* neighbours the lowest index is kept.
BestParentSelection ==
  (pc = "rewire" /\ k = 1) =>
    /\ parent[new_idx] \in ParentCandidates
    /\ cost[new_idx] = CostThrough(parent[new_idx])
    /\ \A c \in ParentCandidates : cost[new_idx] <= CostThrough(c)
    /\ CostThrough(nearest_idx) = cost[new_idx] => parent[new_idx] = nearest_idx
    /\ \A c \in ParentCandidates \ {nearest_idx} :
         CostThrough(c) = cost[new_idx] =>
           (parent[new_idx] = nearest_idx \/ parent[new_idx] <= c)

\* a near neighbour replaced the nearest node as the parent while another
\* candidate stayed costlier
CheaperParentChosen ==
  /\ pc = "rewire" /\ k = 1
  /\ parent[new_idx] # nearest_idx
  /\ Cardinality(ParentCandidates) >= 3

\* C15: a pass of the rewire loop over the near neighbour m re-parents m to
\* the new node n exactly if m is not the parent chosen for n, the cost
\* through n is strictly lower than cost[m] and the segment n -> m is
\* unblocked, and then stores that cost; every other node, the chosen
\* parent included, keeps its parent and its cost.
RewireRule ==
  [][(pc = "rewire" /\ k <= Len(near_nodes)) =>
       LET m == near_nodes[k]
           through == cost[new_idx] + PathCost(map, nodes[new_idx], nodes[m])
           rewired == /\ m # parent[new_idx]
                      /\ through < cost[m]
                      /\ IsCollision(map, nodes[new_idx], nodes[m]) = "free"
       IN  /\ rewired => (parent'[m] = new_idx /\ cost'[m] = through)
           /\ ~rewired => (parent'[m] = parent[m] /\ cost'[m] = cost[m])
           /\ DOMAIN parent' = DOMAIN parent /\ DOMAIN cost' = DOMAIN cost
           /\ \A i \in DOMAIN parent \ {m} :
                parent'[i] = parent[i] /\ cost'[i] = cost[i]
           /\ nodes' = nodes]_vars

\* the pass just made re-parented a near neighbour to the new node
NeighbourRewired ==
  /\ pc = "rewire" /\ k > 1
  /\ parent[near_nodes[k - 1]] = new_idx
  /\ near_nodes[k - 1] # min_parent

\* C16: a step that re-parents a node m changes parent[m] and cost[m] and
\* nothing else of the tree: the stored cost and the parent of every other
\* node, the descendants of m included, stay as they were.
NonPropagatingRewire ==
  [][\A m \in DOMAIN parent :
       (m \in DOMAIN parent' /\ parent'[m] # parent[m]) =>
         /\ nodes' = nodes
         /\ \A d \in DOMAIN cost \ {m} :
              d \in DOMAIN cost' /\ cost'[d] = cost[d] /\ parent'[d] = parent[d]]_vars

\* the pass just made re-parented a node, and the stored cost of one of its
\* children is no longer its cost plus the edge cost
StaleChildAfterRewire ==
  /\ pc = "rewire" /\ k > 1
  /\ LET m == near_nodes[k - 1]
     IN  /\ parent[m] = new_idx
         /\ \E d \in Children :
              /\ parent[d] = m
              /\ cost[d] # cost[m] + PathCost(map, nodes[m], nodes[d])

\* C17: after every step, a node i with parent p stores cost[p] plus the
\* edge cost of p -> i, unless p was re-parented by a rewire after cost[i]
\* was assigned.  A rewire gives a node the index of the node added last as
\* its parent, so a parent index above the own index dates the last rewire
\* of a node: cost[i] was assigned when the later of i and p was added, and
\* p was re-parented after that exactly if parent[p] lies above both.
LocalCostConsistency ==
  \A i \in Children :
    LET p == parent[i]
    IN  (parent[p] = None \/ parent[p] <= Max(i, p)) =>
          cost[i] = cost[p] + PathCost(map, nodes[p], nodes[i])

\* a node was added below a node that a rewire had re-parented before
ChildOfRewiredNode ==
  \E i \in Children :
    LET p == parent[i]
    IN  parent[p] # None /\ parent[p] > p /\ parent[p] < i

\* C18: node 0 is the start point with parent None and cost 0 in every
\* state; no rewire pass re-parents the root or changes its cost.
RootInvariant ==
  /\ nodes[0] = map.start
  /\ parent[0] = None
  /\ cost[0] = 0

\* the rewire loop has just passed over the root, which was a near
\* neighbour of the new node but not its chosen parent
RootPassedOver ==
  /\ pc = "rewire" /\ k > 1
  /\ near_nodes[k - 1] = 0
  /\ min_parent # 0

FarthestReachable(m, p, a) ==
  LET free == {j \in (a + 1)..Len(p) : IsCollision(m, p[a], p[j]) = "free"}
  IN  IF free = {} THEN 0 ELSE CHOOSE j \in free : \A i \in free : i <= j

\* the points picked by shortcutting p from position a on, each the
\* farthest reachable point from the one before
RECURSIVE FarthestChain(_, _, _)
FarthestChain(m, p, a) ==
  IF a = Len(p) \/ FarthestReachable(m, p, a) = 0 THEN <<p[a]>>
  ELSE <<p[a]>> \o FarthestChain(m, p, FarthestReachable(m, p, a))

\* C21: each point of a simplified path is the latest point of the raw path
\* with an unblocked direct segment from the point before it, also when a
\* point in between is blocked from that point.
GreedyPicksFarthest ==
  (result = "path" /\ simplify) => path = FarthestChain(map, raw, 1)

\* C22: the candidate steered to is rejected, and the draw repeated within
\* the same outer iteration, exactly if it lies in an obstacle and its grid
\* cost is at or above the threshold; a candidate outside every obstacle, or
\* of grid cost below the threshold, goes on to the segment test.
GateIsDisjunction ==
  [][pc = "steer" =>
       LET cand == Steer(nodes[NearestNode(nodes, rand_point)], rand_point)
           blocked == \E ob \in map.obstacles : PointInRect(ob, cand)
           costly == GetGridCost(map, cand) >= TraversabilityThreshold
       IN  /\ new_point' = cand
           /\ (blocked /\ costly) => pc' = "draw"
           /\ (~blocked \/ ~costly) => pc' = "extend"
           /\ it' = it /\ nodes' = nodes /\ result' = "running"]_vars

\* a candidate inside an obstacle passed the gate on its low grid cost
BlockedCandidatePassed ==
  /\ pc = "extend"
  /\ PointCollision(map, new_point)
  /\ GetGridCost(map, new_point) < TraversabilityThreshold

\* C23: the rasterization of the segment about to be tested starts at the
\* cell of its first point, ends at the cell of its second point (one cell
\* when the two are the same) and moves by at most one cell in each
\* coordinate from one cell to the next.
RasterCoversSegment ==
  pc = "extend" =>
    LET a == CellOf(nodes[nearest_idx])
        b == CellOf(new_point)
        cells == Bresenham(a, b)
    IN  /\ Len(cells) >= 1
        /\ cells[1] = a
        /\ Last(cells) = b
        /\ \A j \in 1..(Len(cells) - 1) :
             /\ Abs(cells[j + 1][1] - cells[j][1]) <= 1
             /\ Abs(cells[j + 1][2] - cells[j][2]) <= 1

\* C24: in every state a node stores at least the stored cost of its parent
\* plus the edge cost from the parent; no step raises a stored cost; and no
\* rewire pass re-parents the parent chosen for the new node or one of its
\* ancestors.
OneSidedCosts ==
  /\ [](\A i \in Children :
          cost[i] >= cost[parent[i]] + PathCost(map, nodes[parent[i]], nodes[i]))
  /\ [][/\ \A i \in DOMAIN cost : i \in DOMAIN cost' /\ cost'[i] <= cost[i]
        /\ (pc = "rewire" /\ k <= Len(near_nodes)) =>
             \A a \in DOMAIN parent :
               OnParentPath(a, parent[new_idx], NumNodes(nodes)) =>
                 parent'[a] = parent[a]]_vars

\* the rewire loop has passed over a near neighbour that is an ancestor of
\* the parent chosen for the new node, and not the root
AncestorPassedOver ==
  /\ pc = "rewire" /\ k > 1
  /\ near_nodes[k - 1] # 0
  /\ near_nodes[k - 1] # min_parent
  /\ OnParentPath(near_nodes[k - 1], min_parent, NumNodes(nodes))

\* C25: a returned path holds the goal point once, as its last point, and
\* no two consecutive points of it are equal, with simplify off or on.
GoalOnceAtEnd ==
  result = "path" =>
    /\ Last(path) = map.goal
    /\ \A i \in Segments(path) : path[i] # map.goal /\ path[i] # path[i + 1]

\* C26: the simplification of a reconstructed path never goes round without
\* advancing, also on a raw path with repeated points or with the start on
\* the goal: every segment between consecutive points of a raw path is a
\* tree edge that is unblocked under the test the simplification applies.
SimplificationTerminates ==
  /\ result # "hang"
  /\ raw # <<>> =>
       \A i \in Segments(raw) : IsCollision(map, raw[i], raw[i + 1]) = "free"

\* a raw path that holds the goal point twice was simplified
RepeatedPointSimplified ==
  /\ result = "path" /\ simplify
  /\ Len(raw) >= 3 /\ raw[Len(raw) - 1] = Last(raw)
  /\ Len(path) < Len(raw)

\* C27: replan_rrt keeps every waypoint of the route, in its order; a pass
\* over an unblocked segment inserts nothing; for a blocked segment the
\* planner is run from the one waypoint to the next, and when it returns a
\* path exactly the interior points of that path, moved back to the world
\* frame, are inserted; when it returns None, replan_rrt returns None and
\* no route.
RoutePatching ==
  /\ [](/\ replanned.kind = "route" =>
             /\ replanned.route = new_route
             /\ SubseqFrom(route, 1, new_route, 1)
             /\ new_route[1] = route[1]
             /\ Last(new_route) = Last(route)
             /\ (\A j \in Segments(route) :
                   ~Colides(route[j], route[j + 1], Barriers)) => new_route = route
        /\ replanned.kind # "route" => replanned.route = <<>>
        /\ rpc = "rrt" =>
             /\ map.start = <<route[seg_i][1] - Low[1], route[seg_i][2] - Low[2]>>
             /\ map.goal =
                  <<route[seg_i + 1][1] - Low[1], route[seg_i + 1][2] - Low[2]>>
             /\ Last(new_route) = route[seg_i]
             /\ Colides(route[seg_i], route[seg_i + 1], Barriers))
  /\ [][/\ (rpc = "loop" /\ seg_i < Len(route)) =>
             /\ new_route' = Append(new_route, route[seg_i])
             /\ IF Colides(route[seg_i], route[seg_i + 1], Barriers)
                  THEN rpc' = "rrt" /\ seg_i' = seg_i
                  ELSE rpc' = "loop" /\ seg_i' = seg_i + 1
        /\ (rpc = "rrt" /\ pc # "done") => UNCHANGED replan_vars
        /\ (rpc = "rrt" /\ pc = "done" /\ result = "path") =>
             /\ new_route' = new_route \o
                  [j \in 1..(Len(path) - 2) |->
                     <<path[j + 1][1] + Low[1], path[j + 1][2] + Low[2], 0>>]
             /\ seg_i' = seg_i + 1 /\ rpc' = "loop"
        /\ (rpc = "rrt" /\ pc = "done" /\ result = "none") =>
             /\ replanned'.kind = "none" /\ rpc' = "done"
        /\ route' = route]_vars

\* a route with a blocked and an unblocked segment came back patched
PatchedRouteReturned ==
  /\ replanned.kind = "route"
  /\ Len(replanned.route) > Len(route)
  /\ \E j \in Segments(route) : ~Colides(route[j], route[j + 1], Barriers)

NoMissingKey == \A r \in Requests : rq[r].res # "KeyError"

====
